---- MODULE Spec2Model ----
(***************************************************************************)
(* A model of the ELIZA engine of src/src/lib.rs (struct Eliza and its     *)
(* helper functions), with src/src/alphabet.rs and src/src/script.rs.      *)
(*                                                                         *)
(* Text is modelled character by character: a Rust String is a sequence of *)
(* one-character strings, so <<"G","O","T","O">> is the text "GOTO".       *)
(* Option<T> is modelled by the value None or by [some |-> v].             *)
(***************************************************************************)
EXTENDS Integers, Sequences, FiniteSets, TLC

VARIABLES
    script,      \* Eliza.script: the name of the loaded Script (never changes)
    memory,      \* Eliza.memory: VecDeque<String>
    rule_usage,  \* Eliza.rule_usage: HashMap<String, usize>
    pc,          \* position of the caller: "idle", "search" (inside respond), "panicked"
    phrase,      \* respond: the active phrase handed to get_response
    keystack,    \* respond/get_response: the keystack (indexes into script.keywords)
    response,    \* get_response: the local `response`
    reply,       \* the value returned by the last greet/farewell/respond call
    turn         \* observations of the current respond call: its input, the memory
                 \* it began with, the matches of the last pass of the loop 'search,
                 \* and the (keystack, rule_usage, memory) at the head of each pass

vars == <<script, memory, rule_usage, pc, phrase, keystack, response, reply, turn>>

\* `let x = v` with v computed once: F is applied to the value of v
Bind(v, F(_)) == CHOOSE r \in {F(x) : x \in {v}} : TRUE

None == [none |-> TRUE]
Some(v) == [some |-> v]
IsSome(o) == "some" \in DOMAIN o

(***************************************************************************)
(* Bounds of the model.                                                    *)
(***************************************************************************)
\* a respond call starts only while the memory queue is shorter than this
MaxMemory == 2
\* usage counters stop counting here (usize is not explored further)
MaxUsage == 3

(***************************************************************************)
(* Text primitives of the Rust standard library used by lib.rs.            *)
(***************************************************************************)
\* char::is_whitespace, for the characters the model uses
IsWhitespace(c) == c \in {" ", "\t", "\n", "\r"}

\* s[i..] starts with sub (i is a 1-based position)
StartsAt(s, sub, i) ==
    /\ i + Len(sub) - 1 <= Len(s)
    /\ \A k \in 1..Len(sub) : s[i + k - 1] = sub[k]

\* str::contains
Contains(s, sub) == \E i \in 1..(Len(s) + 1) : StartsAt(s, sub, i)

\* str::matches(sub).count(): non-overlapping occurrences, left to right
RECURSIVE CountFrom(_, _, _)
CountFrom(s, sub, i) ==
    IF i > Len(s) - Len(sub) + 1 THEN 0
    ELSE IF StartsAt(s, sub, i) THEN 1 + CountFrom(s, sub, i + Len(sub))
    ELSE CountFrom(s, sub, i + 1)

MatchesCount(s, sub) == CountFrom(s, sub, 1)

\* str::replace: every non-overlapping occurrence, left to right; an empty
\* pattern matches at every character boundary
RECURSIVE ReplaceFrom(_, _, _, _)
ReplaceFrom(s, from, to, i) ==
    IF from = <<>> THEN
        IF i > Len(s) THEN to
        ELSE to \o <<s[i]>> \o ReplaceFrom(s, from, to, i + 1)
    ELSE IF i > Len(s) THEN <<>>
    ELSE IF StartsAt(s, from, i) THEN to \o ReplaceFrom(s, from, to, i + Len(from))
    ELSE <<s[i]>> \o ReplaceFrom(s, from, to, i + 1)

Replace(s, from, to) == ReplaceFrom(s, from, to, 1)

\* str::replace(char::is_whitespace, "")
RemoveWhitespace(s) == SelectSeq(s, LAMBDA c : ~IsWhitespace(c))

\* str::trim
RECURSIVE TrimStart(_)
TrimStart(s) ==
    IF s # <<>> /\ IsWhitespace(Head(s)) THEN TrimStart(Tail(s)) ELSE s

RECURSIVE TrimEnd(_)
TrimEnd(s) ==
    IF s # <<>> /\ IsWhitespace(s[Len(s)]) THEN TrimEnd(SubSeq(s, 1, Len(s) - 1)) ELSE s

Trim(s) == TrimEnd(TrimStart(s))

\* str::split(&str): the pieces between the non-overlapping occurrences of sep
RECURSIVE SplitStrFrom(_, _, _, _)
SplitStrFrom(s, sep, i, cur) ==
    IF i > Len(s) THEN <<cur>>
    ELSE IF StartsAt(s, sep, i) THEN <<cur>> \o SplitStrFrom(s, sep, i + Len(sep), <<>>)
    ELSE SplitStrFrom(s, sep, i + 1, Append(cur, s[i]))

SplitStr(s, sep) == SplitStrFrom(s, sep, 1, <<>>)

\* str::split(|c| ...): the pieces between the characters of the set seps
RECURSIVE SplitCharsFrom(_, _, _, _)
SplitCharsFrom(s, seps, i, cur) ==
    IF i > Len(s) THEN <<cur>>
    ELSE IF s[i] \in seps THEN <<cur>> \o SplitCharsFrom(s, seps, i + 1, <<>>)
    ELSE SplitCharsFrom(s, seps, i + 1, Append(cur, s[i]))

SplitChars(s, seps) == SplitCharsFrom(s, seps, 1, <<>>)

\* str::split_whitespace: the maximal runs of non-whitespace characters
RECURSIVE SplitWhitespaceFrom(_, _, _)
SplitWhitespaceFrom(s, i, cur) ==
    IF i > Len(s) THEN (IF cur = <<>> THEN <<>> ELSE <<cur>>)
    ELSE IF IsWhitespace(s[i]) THEN
        (IF cur = <<>> THEN <<>> ELSE <<cur>>) \o SplitWhitespaceFrom(s, i + 1, <<>>)
    ELSE SplitWhitespaceFrom(s, i + 1, Append(cur, s[i]))

SplitWhitespace(s) == SplitWhitespaceFrom(s, 1, <<>>)

\* Iterator::flat_map over a sequence of sequences
RECURSIVE Flatten(_)
Flatten(ss) == IF ss = <<>> THEN <<>> ELSE Head(ss) \o Flatten(Tail(ss))

(***************************************************************************)
(* src/src/alphabet.rs                                                     *)
(***************************************************************************)
ALPHABET_LOWER ==
    <<"a", "b", "c", "d", "e", "f", "g", "h", "i", "j", "k", "l", "m", "n", "o", "p", "q",
      "r", "s", "t", "u", "v", "w", "x", "y", "z">>

ALPHABET_UPPER ==
    <<"A", "B", "C", "D", "E", "F", "G", "H", "I", "J", "K", "L", "M", "N", "O", "P", "Q",
      "R", "S", "T", "U", "V", "W", "X", "Y", "Z">>

NUMERIC == <<"0", "1", "2", "3", "4", "5", "6", "7", "8", "9">>

\* Standard::find_position(c).is_some()
StandardHas(c) ==
    \/ \E i \in 1..Len(ALPHABET_LOWER) : ALPHABET_LOWER[i] = c
    \/ \E i \in 1..Len(ALPHABET_UPPER) : ALPHABET_UPPER[i] = c

\* Alphanumeric::find_position(c).is_some()
AlphanumericHas(c) ==
    \/ StandardHas(c)
    \/ \E i \in 1..Len(NUMERIC) : NUMERIC[i] = c

\* Alphabet::scrub for STANDARD and for ALPHANUMERIC
ScrubStandard(text) == SelectSeq(text, StandardHas)
ScrubAlphanumeric(text) == SelectSeq(text, AlphanumericHas)

\* str::to_lowercase on the letters of the alphabets above
LowerChar(c) ==
    IF \E i \in 1..Len(ALPHABET_UPPER) : ALPHABET_UPPER[i] = c
    THEN ALPHABET_LOWER[CHOOSE i \in 1..Len(ALPHABET_UPPER) : ALPHABET_UPPER[i] = c]
    ELSE c

ToLowercase(s) == [i \in 1..Len(s) |-> LowerChar(s[i])]

\* str::parse::<usize>: Ok(n) for a non-empty string of decimal digits
IsDigit(c) == \E i \in 1..Len(NUMERIC) : NUMERIC[i] = c
DigitValue(c) == (CHOOSE i \in 1..Len(NUMERIC) : NUMERIC[i] = c) - 1

RECURSIVE DecimalValue(_)
DecimalValue(s) ==
    IF s = <<>> THEN 0
    ELSE DecimalValue(SubSeq(s, 1, Len(s) - 1)) * 10 + DigitValue(s[Len(s)])

\* the digits in front are the number, whatever follows them
ParseUsize_leading_digits(s) ==
    LET k == CHOOSE k \in 0..Len(s) :
                /\ \A i \in 1..k : IsDigit(s[i])
                /\ k = Len(s) \/ ~IsDigit(s[k + 1])
    IN  IF k = 0 THEN None ELSE Some(DecimalValue(SubSeq(s, 1, k)))

ParseUsize(s) ==
    IF s # <<>> /\ \A i \in 1..Len(s) : IsDigit(s[i]) THEN Some(DecimalValue(s)) ELSE None

(***************************************************************************)
(* The regex crate, for the patterns the scripts of this model use:        *)
(* literal characters, '.', '.*' and capture groups '(' ... ')'.  The      *)
(* search is leftmost-first and '.*' is greedy.                            *)
(***************************************************************************)
RECURSIVE ReTokensFrom(_, _)
ReTokensFrom(p, i) ==
    IF i > Len(p) THEN <<>>
    ELSE IF p[i] = "(" THEN <<[t |-> "open", c |-> ""]>> \o ReTokensFrom(p, i + 1)
    ELSE IF p[i] = ")" THEN <<[t |-> "close", c |-> ""]>> \o ReTokensFrom(p, i + 1)
    ELSE IF p[i] = "." /\ i < Len(p) /\ p[i + 1] = "*"
        THEN <<[t |-> "star", c |-> ""]>> \o ReTokensFrom(p, i + 2)
    ELSE IF p[i] = "." THEN <<[t |-> "dot", c |-> ""]>> \o ReTokensFrom(p, i + 1)
    ELSE <<[t |-> "lit", c |-> p[i]]>> \o ReTokensFrom(p, i + 1)

ReTokens(p) == ReTokensFrom(p, 1)

\* number of capture groups of the pattern, the implicit group 0 not counted
ReGroups(p) == Cardinality({k \in 1..Len(ReTokens(p)) : ReTokens(p)[k].t = "open"})

\* Regex::new(p).is_ok(): parentheses balance and every '*' follows a '.'
RECURSIVE ReBalancedFrom(_, _, _)
ReBalancedFrom(p, i, depth) ==
    IF i > Len(p) THEN depth = 0
    ELSE IF p[i] = "(" THEN ReBalancedFrom(p, i + 1, depth + 1)
    ELSE IF p[i] = ")" THEN depth > 0 /\ ReBalancedFrom(p, i + 1, depth - 1)
    ELSE ReBalancedFrom(p, i + 1, depth)

ReValid(p) ==
    /\ ReBalancedFrom(p, 1, 0)
    /\ \A i \in 1..Len(p) : p[i] = "*" => (i > 1 /\ p[i - 1] = ".")
    /\ \A i \in 1..Len(p) : p[i] \notin {"+", "?", "[", "]", "{", "}", "|", "\\", "^", "$"}

NoMatch == [ok |-> FALSE]

\* match toks[i..] against text[j..]; open is the stack of the groups entered
\* and not yet left, caps the spans <<first, next>> of the groups left so far
RECURSIVE ReMatch(_, _, _, _, _, _)
RECURSIVE ReStar(_, _, _, _, _, _, _)
ReMatch(toks, i, text, j, open, caps) ==
    IF i > Len(toks) THEN [ok |-> TRUE, caps |-> caps, end |-> j]
    ELSE IF toks[i].t = "open" THEN
        LET g == Cardinality({k \in 1..i : toks[k].t = "open"})
        IN  ReMatch(toks, i + 1, text, j, <<(<<g, j>>)>> \o open, caps)
    ELSE IF toks[i].t = "close" THEN
        LET g == Head(open)[1]
            from == Head(open)[2]
        IN  ReMatch(toks, i + 1, text, j, Tail(open), [caps EXCEPT ![g] = <<from, j>>])
    ELSE IF toks[i].t = "star" THEN ReStar(toks, i, text, j, Len(text) + 1, open, caps)
    ELSE IF j > Len(text) THEN NoMatch
    ELSE IF toks[i].t = "dot" THEN
        IF text[j] # "\n" THEN ReMatch(toks, i + 1, text, j + 1, open, caps) ELSE NoMatch
    ELSE IF text[j] = toks[i].c THEN ReMatch(toks, i + 1, text, j + 1, open, caps)
    ELSE NoMatch

\* '.*' at toks[i]: the longest run first, then shorter ones (k is where the run ends)
ReStar(toks, i, text, j, k, open, caps) ==
    IF k < j THEN NoMatch
    ELSE IF \E q \in j..(k - 1) : text[q] = "\n" THEN ReStar(toks, i, text, j, k - 1, open, caps)
    ELSE LET r == ReMatch(toks, i + 1, text, k, open, caps)
         IN  IF r.ok THEN r ELSE ReStar(toks, i, text, j, k - 1, open, caps)

\* Regex::captures(text): None, or Some(groups) where groups[0] is the whole
\* match and groups[g] the text of capture group g; groups has len() entries
RECURSIVE CapturesFrom(_, _, _)
CapturesFrom(p, text, s) ==
    IF s > Len(text) + 1 THEN None
    ELSE LET n == ReGroups(p)
             r == ReMatch(ReTokens(p), 1, text, s, <<>>, [g \in 1..n |-> <<0, 0>>])
         IN  IF r.ok
             THEN Some([g \in 0..n |->
                    IF g = 0 THEN SubSeq(text, s, r.end - 1)
                    ELSE SubSeq(text, r.caps[g][1], r.caps[g][2] - 1)])
             ELSE CapturesFrom(p, text, s + 1)

Captures(p, text) == CapturesFrom(p, text, 1)

\* Captures::len()
CapturesLen(cap) == Cardinality(DOMAIN cap)

(***************************************************************************)
(* src/src/lib.rs: the helper functions                                    *)
(***************************************************************************)
Panic == [panic |-> TRUE]
IsPanic(o) == "panic" \in DOMAIN o

\* get_words
get_words(text) == SplitWhitespace(text)

\* the empty fragments are dropped
get_phrases_without_empty(input) ==
    LET parts == SplitStr(input, <<" ", "b", "u", "t", " ">>)
        split == Flatten([i \in 1..Len(parts) |-> SplitChars(parts[i], {".", ",", "?"})])
    IN  SelectSeq([i \in 1..Len(split) |-> Trim(split[i])], LAMBDA f : f # <<>>)

\* the text is split at " but", with or without a blank behind it
get_phrases_at_but_prefix(input) ==
    LET parts == SplitStr(input, <<" ", "b", "u", "t">>)
        split == Flatten([i \in 1..Len(parts) |-> SplitChars(parts[i], {".", ",", "?"})])
    IN  [i \in 1..Len(split) |-> Trim(split[i])]

\* get_phrases
get_phrases(input) ==
    LET parts == SplitStr(input, <<" ", "b", "u", "t", " ">>)
        split == Flatten([i \in 1..Len(parts) |-> SplitChars(parts[i], {".", ",", "?"})])
    IN  [i \in 1..Len(split) |-> Trim(split[i])]

\* only the first equivalent is replaced
ReplaceEquivalents_first_only(transformed, equivalents, replacement) ==
    IF equivalents = <<>> THEN transformed
    ELSE Replace(transformed, Head(equivalents), replacement)

\* transform: the inner loop over the equivalents of one Transform
RECURSIVE ReplaceEquivalents(_, _, _)
ReplaceEquivalents(transformed, equivalents, replacement) ==
    IF equivalents = <<>> THEN transformed
    ELSE ReplaceEquivalents(Replace(transformed, Head(equivalents), replacement),
                            Tail(equivalents), replacement)

\* transform
RECURSIVE transform(_, _)
transform(input, transforms) ==
    IF transforms = <<>> THEN input
    ELSE transform(ReplaceEquivalents(input, Head(transforms).equivalents, Head(transforms).word),
                   Tail(transforms))

\* keywords.iter().find(|k| k.key == word): the index of the first keyword
\* with that key, 0 when there is none
FindKeyword(keywords, word) ==
    IF \E i \in 1..Len(keywords) : keywords[i].key = word
    THEN CHOOSE i \in 1..Len(keywords) :
            /\ keywords[i].key = word
            /\ \A j \in 1..(i - 1) : keywords[j].key # word
    ELSE 0

\* k goes in front of the entries of its own rank
RECURSIVE InsertByRank_before_equal(_, _, _)
InsertByRank_before_equal(keywords, sorted, k) ==
    IF sorted = <<>> THEN <<k>>
    ELSE IF keywords[Head(sorted)].rank > keywords[k].rank
        THEN <<Head(sorted)>> \o InsertByRank_before_equal(keywords, Tail(sorted), k)
    ELSE <<k>> \o sorted

\* Vec::sort_by(|a, b| b.rank.cmp(&a.rank)): a stable sort, highest rank first.
\* InsertByRank puts k behind every entry whose rank is not lower.
RECURSIVE InsertByRank(_, _, _)
InsertByRank(keywords, sorted, k) ==
    IF sorted = <<>> THEN <<k>>
    ELSE IF keywords[Head(sorted)].rank >= keywords[k].rank
        THEN <<Head(sorted)>> \o InsertByRank(keywords, Tail(sorted), k)
    ELSE <<k>> \o sorted

RECURSIVE SortByRank(_, _, _)
SortByRank(keywords, stack, sorted) ==
    IF stack = <<>> THEN sorted
    ELSE SortByRank(keywords, Tail(stack), InsertByRank(keywords, sorted, Head(stack)))

\* populate_keystack: the loop over the words of one phrase
RECURSIVE KeysOfWords(_, _)
KeysOfWords(words, keywords) ==
    IF words = <<>> THEN <<>>
    ELSE LET k == FindKeyword(keywords, Head(words))
         IN  (IF k # 0 THEN <<k>> ELSE <<>>) \o KeysOfWords(Tail(words), keywords)

\* the loop over the phrases is not left at the first phrase with a keyword
RECURSIVE populate_keystack_from_every_phrase(_, _, _)
populate_keystack_from_every_phrase(phrases, keywords, i) ==
    IF i > Len(phrases) THEN [active_phrase |-> None, keystack |-> <<>>]
    ELSE LET found == KeysOfWords(get_words(phrases[i]), keywords)
             rest == populate_keystack_from_every_phrase(phrases, keywords, i + 1)
         IN  [active_phrase |-> IF IsSome(rest.active_phrase) \/ found = <<>>
                                THEN rest.active_phrase ELSE Some(phrases[i]),
              keystack |-> SortByRank(keywords, found \o rest.keystack, <<>>)]

\* populate_keystack: the loop over the phrases; a keyword on the keystack is
\* the index of the script's keyword it is a clone of
RECURSIVE populate_keystack_from(_, _, _)
populate_keystack_from(phrases, keywords, i) ==
    IF i > Len(phrases) THEN [active_phrase |-> None, keystack |-> <<>>]
    ELSE LET found == KeysOfWords(get_words(phrases[i]), keywords)
         IN  IF found # <<>>
             THEN [active_phrase |-> Some(phrases[i]),
                   keystack |-> SortByRank(keywords, found, <<>>)]
             ELSE populate_keystack_from(phrases, keywords, i + 1)

populate_keystack(phrases, keywords) == populate_keystack_from(phrases, keywords, 1)

\* synonyms.iter().find(|s| s.word == scrubbed)
FindSynonym(synonyms, scrubbed) ==
    IF \E i \in 1..Len(synonyms) : synonyms[i].word = scrubbed
    THEN CHOOSE i \in 1..Len(synonyms) :
            /\ synonyms[i].word = scrubbed
            /\ \A j \in 1..(i - 1) : synonyms[j].word # scrubbed
    ELSE 0

\* permutations: the loop over the words of the rule that carry an '@'
RECURSIVE SynonymPermutations(_, _, _)
SynonymPermutations(decomposition, words, synonyms) ==
    IF words = <<>> THEN <<>>
    ELSE LET w == Head(words)
             scrubbed == ScrubStandard(w)
             syn == FindSynonym(synonyms, scrubbed)
             here ==
                IF Contains(w, <<"@">>) /\ syn # 0
                THEN [e \in 1..Len(synonyms[syn].equivalents) |->
                        Replace(Replace(decomposition, scrubbed, synonyms[syn].equivalents[e]),
                                <<"@">>, <<>>)]
                ELSE <<>>
         IN  here \o SynonymPermutations(decomposition, Tail(words), synonyms)

\* the '@' stays in the first pattern
permutations_marker_kept(decomposition, synonyms) ==
    IF MatchesCount(decomposition, <<"@">>) > 1 THEN <<>>
    ELSE SelectSeq(<<decomposition>> \o
                   SynonymPermutations(decomposition, get_words(decomposition), synonyms),
                   ReValid)

\* permutations: the patterns that compile, in order
permutations(decomposition, synonyms) ==
    IF MatchesCount(decomposition, <<"@">>) > 1 THEN <<>>
    ELSE LET base ==
                IF MatchesCount(decomposition, <<"@">>) = 0 THEN decomposition
                ELSE Replace(decomposition, <<"@">>, <<>>)
             perms == <<base>> \o
                      SynonymPermutations(decomposition, get_words(decomposition), synonyms)
         IN  SelectSeq(perms, ReValid)

\* the increment is dropped
Increment_dropped(usage) == usage

\* the usage counter after `*usage = *usage + 1`; the model counts up to MaxUsage
Increment(usage) == IF usage < MaxUsage THEN usage + 1 ELSE usage

\* the last of the least used rules wins
IsLessUsed_or_equal(usage, c) == usage <= c

\* the most used rule wins
IsLessUsed_reversed(usage, c) == usage > c

\* `usage < c`: the usage is less than the running total
IsLessUsed(usage, c) == usage < c

\* the map is rebuilt with the new key alone
insert_alone(map, key, value) == (key :> value)

\* HashMap::insert
insert(map, key, value) == (key :> value) @@ map

\* Eliza::get_reassembly: the loop over the rules; st is (best_rule, count, rule_usage)
RECURSIVE get_reassembly_scan(_, _, _, _)
get_reassembly_scan(st, id, rules, i) ==
    IF i > Len(rules) THEN st
    ELSE LET rule == rules[i]
             key == id \o rule
         IN  IF key \in DOMAIN st.rule_usage
             THEN LET usage == st.rule_usage[key]
                  IN  IF IsSome(st.count)
                      THEN IF IsLessUsed(usage, st.count.some)
                           THEN get_reassembly_scan(
                                    [st EXCEPT !.best_rule = Some(rule), !.count = Some(usage)],
                                    id, rules, i + 1)
                           ELSE get_reassembly_scan(st, id, rules, i + 1)
                      ELSE get_reassembly_scan(
                                [st EXCEPT !.best_rule = Some(rule), !.count = Some(usage)],
                                id, rules, i + 1)
             ELSE [st EXCEPT !.best_rule = Some(rule),
                             !.rule_usage = insert(st.rule_usage, key, 0)]

\* Eliza::get_reassembly: the selected rule and the usage map it leaves
get_reassembly(usage, id, rules) ==
    LET st == get_reassembly_scan([best_rule |-> None, count |-> None, rule_usage |-> usage],
                                  id, rules, 1)
    IN  IF IsSome(st.best_rule)
        THEN LET key == id \o st.best_rule.some
             IN  [best_rule |-> st.best_rule,
                  rule_usage |-> IF key \in DOMAIN st.rule_usage
                                 THEN [st.rule_usage EXCEPT ![key] = Increment(@)]
                                 ELSE st.rule_usage]
        ELSE [best_rule |-> None, rule_usage |-> st.rule_usage]

\* is_goto
is_goto(statement) ==
    IF Contains(statement, <<"G", "O", "T", "O">>)
    THEN Some(RemoveWhitespace(Replace(statement, <<"G", "O", "T", "O">>, <<>>)))
    ELSE None

\* an entry applies to its inverse whether it is two-way or not
FindReflection_any_inverse(reflections, w) ==
    LET applies(r) == r.word = w \/ r.inverse = w
    IN  IF \E i \in 1..Len(reflections) : applies(reflections[i])
        THEN CHOOSE i \in 1..Len(reflections) :
                /\ applies(reflections[i])
                /\ \A j \in 1..(i - 1) : ~applies(reflections[j])
        ELSE 0

\* reflect: reflections.iter().find(...), 0 when no pair applies to the word
FindReflection(reflections, w) ==
    LET applies(r) == r.word = w \/ (IF r.twoway THEN r.inverse = w ELSE FALSE)
    IN  IF \E i \in 1..Len(reflections) : applies(reflections[i])
        THEN CHOOSE i \in 1..Len(reflections) :
                /\ applies(reflections[i])
                /\ \A j \in 1..(i - 1) : ~applies(reflections[j])
        ELSE 0

\* the inverse of a pair is never turned back into its word
RECURSIVE ReflectWords_one_way(_, _)
ReflectWords_one_way(words, reflections) ==
    IF words = <<>> THEN <<>>
    ELSE LET w == Head(words)
             r == FindReflection(reflections, w)
             out == IF r # 0 /\ reflections[r].word = w THEN reflections[r].inverse ELSE w
         IN  out \o <<" ">> \o ReflectWords_one_way(Tail(words), reflections)

\* reflect: the loop over the words
RECURSIVE ReflectWords(_, _)
ReflectWords(words, reflections) ==
    IF words = <<>> THEN <<>>
    ELSE LET w == Head(words)
             r == FindReflection(reflections, w)
             out ==
                IF r # 0
                THEN IF reflections[r].word = w THEN reflections[r].inverse
                     ELSE IF reflections[r].twoway /\ reflections[r].inverse = w
                          THEN reflections[r].word
                     ELSE <<>>
                ELSE w
         IN  out \o <<" ">> \o ReflectWords(Tail(words), reflections)

\* reflect
reflect(input, reflections) == Trim(ReflectWords(get_words(input), reflections))

\* assemble: the loop over the words of the rule.  Indexing captures[n] with
\* no group n panics (Index for regex::Captures).
RECURSIVE AssembleWords(_, _, _, _)
AssembleWords(temp, words, captures, reflections) ==
    IF words = <<>> THEN Some(temp)
    ELSE LET w == Head(words)
         IN  IF Contains(w, <<"$">>)
             THEN LET scrubbed == ScrubAlphanumeric(w)
                      n == ParseUsize(scrubbed)
                  IN  IF IsSome(n)
                      THEN IF n.some < CapturesLen(captures) + 1
                           THEN IF n.some \in DOMAIN captures
                                THEN AssembleWords(
                                        Replace(Replace(temp, scrubbed,
                                                        reflect(captures[n.some], reflections)),
                                                <<"$">>, <<>>),
                                        Tail(words), captures, reflections)
                                ELSE Panic
                           ELSE None
                      ELSE None
             ELSE AssembleWords(temp, Tail(words), captures, reflections)

\* assemble: Some(text), None, or a panic
assemble(rule, captures, reflections) ==
    AssembleWords(rule, get_words(rule), captures, reflections)

(***************************************************************************)
(* Scripts.  Script::load delivers one of these; the engine never changes  *)
(* it.  The words are short so that the texts stay small.                  *)
(***************************************************************************)
Rule(memorise, decomposition_rule, reassembly_rules) ==
    [memorise |-> memorise, decomposition_rule |-> decomposition_rule,
     reassembly_rules |-> reassembly_rules]

Keyword(key, rank, rules) == [key |-> key, rank |-> rank, rules |-> rules]

AnyText == <<"(", ".", "*", ")">>

\* "my" memorises and then answers; "me" only memorises
MemoryKeywords ==
    << Keyword(<<"m", "y">>, 1,
            << Rule(TRUE, <<"m", "y", " ", "(", ".", "*", ")">>, << <<"Y", " ", "$", "1">> >>),
               Rule(FALSE, AnyText, << <<"A">>, <<"B">> >>) >>),
       Keyword(<<"m", "e">>, 0,
            << Rule(TRUE, <<"m", "e", " ", "(", ".", "*", ")">>, << <<"E", " ", "$", "1">> >>) >>) >>

ScriptMemory ==
    [greetings |-> << <<"H", "i">>, <<"Y", "o">> >>,
     farewells |-> << <<"B", "y", "e">> >>,
     fallbacks |-> << <<"F">>, <<"O", "h">> >>,
     transforms |-> << [word |-> <<"m", "y">>, equivalents |-> << <<"m", "i", "n", "e">> >>] >>,
     synonyms |-> <<>>,
     reflections |-> << [word |-> <<"i">>, inverse |-> <<"y", "o", "u">>, twoway |-> TRUE] >>,
     keywords |-> MemoryKeywords]

\* the same keywords, and nothing to greet, part or fall back with
ScriptBare ==
    [greetings |-> <<>>, farewells |-> <<>>, fallbacks |-> <<>>, transforms |-> <<>>,
     synonyms |-> <<>>, reflections |-> <<>>, keywords |-> MemoryKeywords]

\* redirections: g -> k; c -> c; d -> e -> d; u and v name z, which is no
\* keyword, and the rule of v has two permutations
ScriptGoto ==
    [greetings |-> << <<"H", "i">> >>,
     farewells |-> <<>>,
     fallbacks |-> << <<"F">> >>,
     transforms |-> <<>>,
     synonyms |-> << [word |-> <<"v">>, equivalents |-> << <<"w">> >>] >>,
     reflections |-> <<>>,
     keywords |->
        << Keyword(<<"g">>, 2,
                << Rule(FALSE, AnyText, << <<"G", "O", "T", "O", " ", "k">> >>),
                   Rule(FALSE, AnyText, << <<"R">> >>) >>),
           Keyword(<<"h">>, 1, << Rule(FALSE, AnyText, << <<"H">> >>) >>),
           Keyword(<<"k">>, 0,
                << Rule(FALSE, <<"k", " ", "(", ".", "*", ")">>, << <<"K", " ", "$", "1">> >>) >>),
           Keyword(<<"c">>, 0, << Rule(FALSE, AnyText, << <<"G", "O", "T", "O", " ", "c">> >>) >>),
           Keyword(<<"d">>, 0, << Rule(FALSE, AnyText, << <<"G", "O", "T", "O", " ", "e">> >>) >>),
           Keyword(<<"e">>, 0, << Rule(FALSE, AnyText, << <<"G", "O", "T", "O", " ", "d">> >>) >>),
           Keyword(<<"u">>, 0,
                << Rule(FALSE, AnyText, << <<"G", "O", "T", "O", " ", "z">>, <<"U">> >>) >>),
           Keyword(<<"v">>, 0,
                << Rule(FALSE, <<"@", "v", "(", ".", "*", ")">>,
                        << <<"G", "O", "T", "O", " ", "z">>, <<"V">> >>) >>) >>]

\* back-references past the last capture group: $3 and $2 under one group
ScriptRange ==
    [greetings |-> <<>>,
     farewells |-> << <<"B", "y", "e">> >>,
     fallbacks |-> << <<"F">> >>,
     transforms |-> <<>>,
     synonyms |-> <<>>,
     reflections |-> <<>>,
     keywords |->
        << Keyword(<<"o">>, 0,
                << Rule(FALSE, AnyText, << <<"O", " ", "$", "3">> >>),
                   Rule(FALSE, AnyText, << <<"N">> >>) >>),
           Keyword(<<"p">>, 0,
                << Rule(FALSE, AnyText, << <<"P", " ", "$", "2">> >>),
                   Rule(FALSE, AnyText, << <<"N">> >>) >>) >>]

\* redirections in a circle, c -> d -> c, in rules that also hold a template
\* that is no GOTO; "$a" does not assemble; the memorising rule of v and the
\* rule of w, which redirects to w, have two permutations, v(.*) and w(.*)
ScriptCycle ==
    [greetings |-> <<>>,
     farewells |-> <<>>,
     fallbacks |-> << <<"F">> >>,
     transforms |-> <<>>,
     synonyms |-> << [word |-> <<"v">>, equivalents |-> << <<"w">> >>] >>,
     reflections |-> <<>>,
     keywords |->
        << Keyword(<<"c">>, 0,
                << Rule(FALSE, AnyText, << <<"G", "O", "T", "O", " ", "d">>, <<"C">> >>) >>),
           Keyword(<<"d">>, 0,
                << Rule(FALSE, AnyText, << <<"G", "O", "T", "O", " ", "c">>, <<"$", "a">> >>) >>),
           Keyword(<<"o">>, 0,
                << Rule(FALSE, AnyText, << <<"$", "a">> >>),
                   Rule(FALSE, <<"o", "(", ".", "*", ")">>, << <<"O">> >>) >>),
           Keyword(<<"v">>, 0,
                << Rule(TRUE, <<"@", "v", "(", ".", "*", ")">>,
                        << <<"M", " ", "$", "1">>, <<"L", " ", "$", "1">> >>) >>),
           Keyword(<<"w">>, 0,
                << Rule(FALSE, <<"@", "v", "(", ".", "*", ")">>,
                        << <<"G", "O", "T", "O", " ", "w">>, <<"$", "a">> >>) >>) >>]

\* the variable script names the loaded script; Loaded(name) is its content
Scripts == {"memory", "bare", "goto", "range", "cycle"}

Loaded(name) ==
    CASE name = "memory" -> ScriptMemory
      [] name = "bare" -> ScriptBare
      [] name = "goto" -> ScriptGoto
      [] name = "range" -> ScriptRange
      [] name = "cycle" -> ScriptCycle

\* what the user types
Inputs ==
    { <<>>,
      <<"q">>,
      <<"M", "y", " ", "i">>,
      <<"q", ".", " ", "m", "i", "n", "e", " ", "x", "?">>,
      <<"m", "e", " ", "x">>,
      <<"g", " ", "h">>,
      <<"h", " ", "g", " ", "k", " ", "x">>,
      <<"c">>,
      <<"d">>,
      <<"u">>,
      <<"v", " ", "w">>,
      <<"o">>,
      <<"p">> }

(***************************************************************************)
(* The engine: Eliza::new, greet, farewell, respond                        *)
(***************************************************************************)
NoUsage == [k \in {} |-> 0]

\* Eliza::new
Init ==
    /\ script \in Scripts
    /\ memory = <<>>
    /\ rule_usage = NoUsage
    /\ pc = "idle"
    /\ phrase = None
    /\ keystack = <<>>
    /\ response = None
    /\ reply = None
    /\ turn = [input |-> <<>>, memory |-> <<>>, visits |-> <<>>, heads |-> {}]

\* slice.choose(rng): any element, None for an empty list
Choose(list) == IF list = <<>> THEN {None} ELSE {Some(list[i]) : i \in 1..Len(list)}

\* no default greeting
greet_without_default(greeting) == IF IsSome(greeting) THEN greeting.some ELSE <<>>

\* Eliza::greet
greet(greeting) ==
    IF IsSome(greeting) THEN greeting.some
    ELSE <<"H", "e", "l", "l", "o", ",", " ", "I", " ", "a", "m", " ", "E", "l", "i", "z", "a", ".">>

\* Eliza::farewell
farewell(farwell) ==
    IF IsSome(farwell) THEN farwell.some
    ELSE <<"G", "o", "o", "d", "b", "y", "e", ".">>

\* no default text
fallback_without_default(fb) == IF IsSome(fb) THEN fb.some ELSE <<>>

\* Eliza::fallback
fallback(fb) ==
    IF IsSome(fb) THEN fb.some ELSE <<"G", "o", " ", "o", "n", ".">>

Greet ==
    /\ pc = "idle"
    /\ \E g \in Choose(Loaded(script).greetings) : reply' = [by |-> "greet", text |-> greet(g)]
    /\ UNCHANGED <<script, memory, rule_usage, pc, phrase, keystack, response, turn>>

Farewell ==
    /\ pc = "idle"
    /\ \E f \in Choose(Loaded(script).farewells) : reply' = [by |-> "farewell", text |-> farewell(f)]
    /\ UNCHANGED <<script, memory, rule_usage, pc, phrase, keystack, response, turn>>

\* Eliza::respond, lines 92-94: normalise, segment, build the keystack.  With
\* no active phrase the keystack is empty and get_response is not entered.
Respond(input) ==
    /\ pc = "idle"
    /\ Len(memory) <= MaxMemory
    /\ \A k \in DOMAIN rule_usage : rule_usage[k] < MaxUsage
    /\ LET phrases == get_phrases(transform(ToLowercase(input), Loaded(script).transforms))
           found == populate_keystack(phrases, Loaded(script).keywords)
       IN  /\ phrase' = found.active_phrase
           /\ keystack' = found.keystack
    /\ response' = None
    /\ pc' = "search"
    /\ turn' = [input |-> input, memory |-> memory, visits |-> <<>>, heads |-> {}]
    /\ UNCHANGED <<script, memory, rule_usage, reply>>

\* the value goes to the back
push_front_at_back(deque, value) == Append(deque, value)

\* VecDeque::push_front
push_front(deque, value) == <<value>> \o deque

\* VecDeque::push_back
push_back(deque, value) == Append(deque, value)

\* the newest entry is taken
pop_front_newest(deque) ==
    IF deque = <<>> THEN [value |-> None, rest |-> deque]
    ELSE [value |-> Some(deque[Len(deque)]), rest |-> SubSeq(deque, 1, Len(deque) - 1)]

\* nothing is taken
pop_front_nothing(deque) == [value |-> None, rest |-> deque]

\* VecDeque::pop_front
pop_front(deque) ==
    IF deque = <<>> THEN [value |-> None, rest |-> deque]
    ELSE [value |-> Some(Head(deque)), rest |-> Tail(deque)]

\* Eliza::get_response, the loop 'decompostion over the rules of the popped
\* keyword and, inside it, over the regex permutations of each rule, from
\* rule ri, permutation pi on.  st holds rule_usage, memory, keystack,
\* response, and exit: "next" (the rules are exhausted), "goto" (break
\* 'decompostion), "found" (break 'search) or "panic"; st.visits lists the
\* matches of this pass with the template selected and what became of it.
RECURSIVE SearchRules(_, _, _, _, _, _)
SearchRules(st, scr, active, next, ri, pi) ==
    IF ri > Len(scr.keywords[next].rules) THEN st
    ELSE
    LET r == scr.keywords[next].rules[ri] IN
    Bind(permutations(r.decomposition_rule, scr.synonyms), LAMBDA regexes :
    IF pi > Len(regexes) THEN SearchRules(st, scr, active, next, ri + 1, 1)
    ELSE
    Bind(Captures(regexes[pi], active), LAMBDA cap :
    IF ~IsSome(cap) THEN SearchRules(st, scr, active, next, ri, pi + 1)
    ELSE
    Bind(get_reassembly(st.rule_usage, r.decomposition_rule, r.reassembly_rules), LAMBDA sel :
    LET seen(what) == Append(st.visits,
                        [keyword |-> next, rule |-> ri, perm |-> pi,
                         assem |-> sel.best_rule, result |-> what])
        st1(what) == [st EXCEPT !.rule_usage = sel.rule_usage, !.visits = seen(what)]
    IN
    IF ~IsSome(sel.best_rule) THEN SearchRules(st1("no rule"), scr, active, next, ri, pi + 1)
    ELSE
    LET assem == sel.best_rule.some
        goto == is_goto(assem)
    IN
    IF IsSome(goto) THEN
        LET entry == FindKeyword(scr.keywords, goto.some) IN
        IF entry # 0
        THEN [st1("goto") EXCEPT !.keystack = push_front(@, entry), !.exit = "goto"]
        ELSE SearchRules(st1("no such keyword"), scr, active, next, ri, pi + 1)
    ELSE
    Bind(assemble(assem, cap.some, scr.reflections), LAMBDA assembled :
    IF IsPanic(assembled) THEN [st1("panic") EXCEPT !.exit = "panic"]
    ELSE IF IsSome(assembled) THEN
        IF r.memorise
        THEN SearchRules([st1("memorised") EXCEPT !.memory = push_back(@, assembled.some),
                                                   !.response = None],
                         scr, active, next, ri, pi + 1)
        ELSE [st1("found") EXCEPT !.response = assembled, !.exit = "found"]
    ELSE SearchRules([st1("not assembled") EXCEPT !.response = None],
                     scr, active, next, ri, pi + 1)))))

\* the keyword at the back of the keystack is taken
SearchKeyword_from_back(usage, mem, stack, scr, active) ==
    SearchRules([rule_usage |-> usage, memory |-> mem,
                 keystack |-> SubSeq(stack, 1, Len(stack) - 1),
                 response |-> None, exit |-> "next", visits |-> <<>>],
                scr, active, stack[Len(stack)], 1, 1)

\* Eliza::get_response: one pass of the loop 'search: pop the front keyword
\* and go through its rules
SearchKeyword(usage, mem, stack, scr, active) ==
    SearchRules([rule_usage |-> usage, memory |-> mem, keystack |-> Tail(stack),
                 response |-> None, exit |-> "next", visits |-> <<>>],
                scr, active, Head(stack), 1, 1)

SearchPop ==
    /\ pc = "search"
    /\ ~IsSome(response)
    /\ keystack # <<>>
    /\ \E st \in {SearchKeyword(rule_usage, memory, keystack, Loaded(script), phrase.some)} :
           /\ rule_usage' = st.rule_usage
           /\ memory' = st.memory
           /\ keystack' = st.keystack
           /\ response' = st.response
           /\ turn' = [turn EXCEPT !.visits = st.visits,
                                    !.heads = @ \cup {<<keystack, rule_usage, memory>>}]
           /\ pc' = IF st.exit = "panic" THEN "panicked" ELSE "search"
    /\ UNCHANGED <<script, phrase, reply>>

\* Eliza::respond, lines 100-109: the response of the search, else the front
\* of the memory queue, else a fallback
RespondReturn ==
    /\ pc = "search"
    /\ IsSome(response) \/ keystack = <<>>
    /\ LET mem == pop_front(memory)
       IN  IF IsSome(response)
           THEN /\ reply' = [by |-> "search", text |-> response.some]
                /\ memory' = memory
           ELSE IF IsSome(mem.value)
           THEN /\ reply' = [by |-> "memory", text |-> mem.value.some]
                /\ memory' = mem.rest
           ELSE /\ \E fb \in Choose(Loaded(script).fallbacks) :
                        reply' = [by |-> "fallback", text |-> fallback(fb)]
                /\ memory' = mem.rest
    /\ pc' = "idle"
    /\ UNCHANGED <<script, rule_usage, phrase, keystack, response, turn>>

Next ==
    \/ Greet
    \/ Farewell
    \/ \E input \in Inputs : Respond(input)
    \/ SearchPop
    \/ RespondReturn

Spec == Init /\ [][Next]_vars

(***************************************************************************)
(* get_reassembly on its own, as the unit tests of lib.rs call it: an      *)
(* engine with a given usage map, and selections under one rule.           *)
(***************************************************************************)
\* the usage map given to the engine holds counts up to this
MaxStartUsage == 2
\* selections made in a row
MaxPicks == 5

SelectId == <<"i">>
SelectTemplates == {<<"A">>, <<"B">>, <<"C">>, <<"D">>}
SelectLists ==
    { << <<"A">>, <<"B">>, <<"C">>, <<"D">> >>,
      << <<"D">>, <<"B">>, <<"A">> >>,
      << <<"B">>, <<"B">> >>,
      << <<"C">> >>,
      <<>> }
\* a template of another rule with the text of one of these
OtherKey == <<"j", "A">>

SelectInit ==
    /\ script = "bare"
    /\ memory = <<>>
    /\ \E keys \in SUBSET {SelectId \o t : t \in SelectTemplates} :
       \E counts \in [keys -> 1..MaxStartUsage] :
            rule_usage = (OtherKey :> 1) @@ counts
    /\ pc = "select"
    /\ phrase = None
    /\ keystack = <<>>
    /\ response = None
    /\ reply = None
    /\ \E rules \in SelectLists :
            turn = [id |-> SelectId, rules |-> rules, usage |-> rule_usage, picks |-> <<>>]

\* e.get_reassembly(id, &rules)
Select ==
    /\ pc = "select"
    /\ Len(turn.picks) < MaxPicks
    /\ \A k \in DOMAIN rule_usage : rule_usage[k] < MaxUsage
    /\ LET sel == get_reassembly(rule_usage, turn.id, turn.rules)
       IN  /\ rule_usage' = sel.rule_usage
           /\ turn' = [turn EXCEPT !.picks = Append(@, sel.best_rule)]
    /\ UNCHANGED <<script, memory, pc, phrase, keystack, response, reply>>

SelectSpec == SelectInit /\ [][Select]_vars

(***************************************************************************)
(* The claims                                                              *)
(***************************************************************************)
Last(seq) == seq[Len(seq)]

\* the respond call is at the head of the loop 'search and will pop a keyword
AtPop == pc = "search" /\ ~IsSome(response) /\ keystack # <<>>

\* the step is one pass of the loop 'search (or leaves everything as it is)
IsPop == AtPop /\ pc' # "idle"

\* the step is the return of respond
IsReturn == pc = "search" /\ pc' = "idle"

\* the template has a back-reference $n with n above the number of capture
\* groups of the pattern
RefsPastGroups(template, pattern) ==
    \E i \in 1..Len(get_words(template)) :
        LET w == get_words(template)[i]
            n == ParseUsize(ScrubAlphanumeric(w))
        IN  Contains(w, <<"$">>) /\ IsSome(n) /\ n.some > ReGroups(pattern)

VisitRefsPastGroups(v) ==
    /\ IsSome(v.assem)
    /\ ~IsSome(is_goto(v.assem.some))
    /\ LET r == Loaded(script).keywords[v.keyword].rules[v.rule]
       IN  RefsPastGroups(v.assem.some,
                          permutations(r.decomposition_rule, Loaded(script).synonyms)[v.perm])

\* C1: respond never aborts: whenever a rule matched and the selected template
\* has a back-reference $n with n above the number of capture groups
\* (n = groups + 1 included), assemble yields no string, the search goes on
\* and the call is not aborted.
C1_BackReferencePastGroupsIsRecoverable ==
    /\ pc # "panicked"
    /\ pc \in {"search", "idle"} =>
        \A i \in 1..Len(turn.visits) :
            VisitRefsPastGroups(turn.visits[i]) => turn.visits[i].result = "not assembled"

\* C2: in every respond call the loop 'search comes to an end, also under
\* scripts whose GOTO templates redirect in a cycle: no pass of the loop starts
\* from the keystack, usage map and memory an earlier pass of the same call
\* started from (the loop is deterministic, so such a pass repeats for ever).
C2_SearchTerminates == AtPop => <<keystack, rule_usage, memory>> \notin turn.heads

\* C3: a string assembled under a rule with memorise = true is not the value
\* returned by the respond call that assembled it: what a call returns from
\* memory was in the queue when the call began.
C3_MemorisedIsNotReturnedInItsTurn ==
    (pc = "idle" /\ reply # None /\ reply.by = "memory") => turn.memory # <<>>

ReplyBy(by) == reply # None /\ reply.by = by

\* C4: memory is a FIFO: a call whose search yields nothing while memory is
\* not empty returns the oldest entry and removes exactly that one; a call
\* whose search yields a response leaves memory as it is; every other step
\* only appends at the back.
C4_MemoryIsFifo ==
    [][ /\ (IsReturn /\ ~IsSome(response) /\ memory # <<>>) =>
            /\ reply' = [by |-> "memory", text |-> Head(memory)]
            /\ memory' = Tail(memory)
        /\ (IsReturn /\ IsSome(response)) =>
            /\ reply' = [by |-> "search", text |-> response.some]
            /\ memory' = memory
        /\ ~IsReturn =>
            /\ Len(memory') >= Len(memory)
            /\ SubSeq(memory', 1, Len(memory)) = memory ]_vars

\* two different entries were waiting and the call returned the older one
C4_Witness ==
    /\ pc = "idle"
    /\ ReplyBy("memory")
    /\ Len(turn.memory) >= 2
    /\ turn.memory[1] # turn.memory[2]
    /\ reply.text = turn.memory[1]
    /\ memory = Tail(turn.memory)

GoOn == <<"G", "o", " ", "o", "n", ".">>

FallbackTexts ==
    IF Loaded(script).fallbacks = <<>> THEN {GoOn}
    ELSE {Loaded(script).fallbacks[i] : i \in 1..Len(Loaded(script).fallbacks)}

\* no key of the script occurs anywhere in the normalised input
KeywordFree(input) ==
    \A i \in 1..Len(Loaded(script).keywords) :
        ~Contains(transform(ToLowercase(input), Loaded(script).transforms),
                  Loaded(script).keywords[i].key)

\* C5: an input without keyword (the empty input among them) yields no
\* response from the search, and a call whose search yields nothing while
\* memory is empty returns an entry of script.fallbacks, or "Go on." when
\* there is none.
C5_FallbackWhenNothingElse ==
    /\ []((pc = "search" /\ KeywordFree(turn.input)) => (keystack = <<>> /\ ~IsSome(response)))
    /\ [][ (IsReturn /\ ~IsSome(response) /\ memory = <<>>) =>
            /\ reply'.by = "fallback"
            /\ reply'.text \in FallbackTexts ]_vars

\* respond("") returned "Go on." under a script without fallbacks
C5_Witness ==
    /\ pc = "idle"
    /\ ReplyBy("fallback")
    /\ turn.input = <<>>
    /\ Loaded(script).fallbacks = <<>>
    /\ reply.text = GoOn

SelectKey(t) == turn.id \o t

\* the template the selection rule names: the first one never used, else the
\* first among the least used
ExpectedTemplate(usage, id, rules) ==
    LET unused == {i \in 1..Len(rules) : id \o rules[i] \notin DOMAIN usage}
        least == {i \in 1..Len(rules) :
                    \A j \in 1..Len(rules) : usage[id \o rules[i]] <= usage[id \o rules[j]]}
        first(S) == CHOOSE i \in S : \A j \in S : i <= j
    IN  IF rules = <<>> THEN None
        ELSE IF unused # {} THEN Some(rules[first(unused)])
        ELSE Some(rules[first(least)])

IsSelection == pc = "select" /\ turn'.picks # turn.picks

\* C6: get_reassembly returns the first template in declaration order whose
\* key is absent from rule_usage, else the template with the lowest count,
\* the earliest among equal minima, and no template only for an empty list.
C6_SelectsFirstUnusedElseLeastUsed ==
    [][ IsSelection =>
            /\ Last(turn'.picks) = ExpectedTemplate(rule_usage, turn.id, turn.rules)
            /\ (~IsSome(Last(turn'.picks)) <=> turn.rules = <<>>) ]_vars

\* D, B, A were used 2, 1, 1 times and B was selected; then A; then D
C6_Witness ==
    /\ pc = "select"
    /\ turn.rules = << <<"D">>, <<"B">>, <<"A">> >>
    /\ {SelectKey(<<"D">>), SelectKey(<<"B">>), SelectKey(<<"A">>)} \subseteq DOMAIN turn.usage
    /\ turn.usage[SelectKey(<<"D">>)] = 2
    /\ turn.usage[SelectKey(<<"B">>)] = 1
    /\ turn.usage[SelectKey(<<"A">>)] = 1
    /\ turn.picks = << Some(<<"B">>), Some(<<"A">>), Some(<<"D">>) >>

\* C7: a selection changes rule_usage in one entry: the count of the chosen
\* template becomes its count plus 1 (1 when it was absent); no other count
\* changes and no key is removed.
C7_SelectionCountsOnce ==
    [][ IsSelection =>
            IF IsSome(Last(turn'.picks))
            THEN LET key == SelectKey(Last(turn'.picks).some)
                     was == IF key \in DOMAIN rule_usage THEN rule_usage[key] ELSE 0
                 IN  /\ DOMAIN rule_usage' = DOMAIN rule_usage \cup {key}
                     /\ rule_usage'[key] = was + 1
                     /\ \A k \in DOMAIN rule_usage \ {key} : rule_usage'[k] = rule_usage[k]
            ELSE rule_usage' = rule_usage ]_vars

\* a template never used was selected and counts 1; then one used once
\* before, which counts 2; the key of another rule still counts 1
C7_Witness ==
    /\ pc = "select"
    /\ Len(turn.picks) = 2
    /\ turn.picks[1] = Some(<<"A">>)
    /\ SelectKey(<<"A">>) \notin DOMAIN turn.usage
    /\ rule_usage[SelectKey(<<"A">>)] = 1
    /\ turn.picks[2] = Some(<<"B">>)
    /\ SelectKey(<<"B">>) \in DOMAIN turn.usage
    /\ turn.usage[SelectKey(<<"B">>)] = 1
    /\ rule_usage[SelectKey(<<"B">>)] = 2
    /\ rule_usage[OtherKey] = 1

Distinct(seq) == \A i, j \in 1..Len(seq) : i # j => seq[i] # seq[j]

\* all templates of the rule unused, or all used equally often
EqualUsage(usage, id, rules) ==
    \/ \A i \in 1..Len(rules) : id \o rules[i] \notin DOMAIN usage
    \/ /\ \A i \in 1..Len(rules) : id \o rules[i] \in DOMAIN usage
       /\ \A i, j \in 1..Len(rules) : usage[id \o rules[i]] = usage[id \o rules[j]]

\* C8: from equal usage, n selections in a row over n distinct templates
\* return each template once, in declaration order.
C8_RoundRobinFromEqualUsage ==
    (pc = "select" /\ Distinct(turn.rules) /\ EqualUsage(turn.usage, turn.id, turn.rules)) =>
        \A i \in 1..Len(turn.picks) :
            i <= Len(turn.rules) => turn.picks[i] = Some(turn.rules[i])

\* four templates, each used once before, and four selections
C8_Witness ==
    /\ pc = "select"
    /\ Len(turn.rules) = 4
    /\ \A i \in 1..4 : SelectKey(turn.rules[i]) \in DOMAIN turn.usage
    /\ \A i \in 1..4 : turn.usage[SelectKey(turn.rules[i])] = 1
    /\ Len(turn.picks) = 4
    /\ {turn.picks[i] : i \in 1..4} = {Some(turn.rules[i]) : i \in 1..4}

\* C9: rule_usage is empty at construction; afterwards no key leaves it and
\* no count decreases.
C9_UsageOnlyGrows ==
    /\ rule_usage = NoUsage
    /\ [][ /\ DOMAIN rule_usage \subseteq DOMAIN rule_usage'
           /\ \A k \in DOMAIN rule_usage : rule_usage'[k] >= rule_usage[k] ]_vars

\* several keys, one of them counted more than once, after greet and respond
C9_Witness ==
    /\ pc = "idle"
    /\ ReplyBy("greet")
    /\ Cardinality(DOMAIN rule_usage) >= 3
    /\ \E k \in DOMAIN rule_usage : rule_usage[k] >= 2

\* the keyword a visit's GOTO template names, 0 when the script has none
GotoTarget(v) == FindKeyword(Loaded(script).keywords, is_goto(v.assem.some).some)

\* C10: every pass of the loop works on the keyword at the front of the
\* keystack; when it selects 'GOTO k' with k a keyword of the script, k is
\* pushed at the front of the keystack (to be the next one popped, before all
\* that were waiting) and no later rule of the current keyword is tried.
C10_GotoRedirects ==
    [][ IsPop =>
        /\ \A i \in 1..Len(turn'.visits) : turn'.visits[i].keyword = Head(keystack)
        /\ (turn'.visits # <<>> /\ Last(turn'.visits).result = "goto") =>
            LET v == Last(turn'.visits)
                rules == Loaded(script).keywords[v.keyword].rules
                later == {rules[ri].decomposition_rule \o rules[ri].reassembly_rules[ti] :
                            <<ri, ti>> \in {x \in ((v.rule + 1)..Len(rules)) \X (1..3) :
                                                x[2] <= Len(rules[x[1]].reassembly_rules)}}
                sofar == {rules[ri].decomposition_rule \o rules[ri].reassembly_rules[ti] :
                            <<ri, ti>> \in {x \in (1..v.rule) \X (1..3) :
                                                x[2] <= Len(rules[x[1]].reassembly_rules)}}
            IN  /\ GotoTarget(v) # 0
                /\ keystack' = <<GotoTarget(v)>> \o Tail(keystack)
                /\ \A i \in 1..Len(turn'.visits) : turn'.visits[i].rule <= v.rule
                /\ \A key \in later \ sofar :
                    /\ key \in DOMAIN rule_usage' <=> key \in DOMAIN rule_usage
                    /\ key \in DOMAIN rule_usage => rule_usage'[key] = rule_usage[key]
      ]_vars

\* "h g k x": g redirected to k, which now waits in front of h and k
C10_Witness ==
    /\ pc = "search"
    /\ script = "goto"
    /\ turn.visits # <<>>
    /\ Last(turn.visits).result = "goto"
    /\ Loaded(script).keywords[Last(turn.visits).keyword].key = <<"g">>
    /\ keystack = <<3, 2, 3>>

\* C11: when the template selected for a matching rule is 'GOTO k' and k is
\* no keyword of the script, nothing is pushed on the keystack and the next
\* template of the same rule is selected next.
C11_UnknownGotoTriesNextTemplate ==
    pc \in {"search", "idle"} =>
        \A i \in 1..Len(turn.visits) :
            LET v == turn.visits[i]
                r == Loaded(script).keywords[v.keyword].rules[v.rule]
            IN  (v.result = "no such keyword" /\ Len(r.reassembly_rules) > 1) =>
                    /\ i < Len(turn.visits)
                    /\ turn.visits[i + 1].keyword = v.keyword
                    /\ turn.visits[i + 1].rule = v.rule
                    /\ turn.visits[i + 1].assem # v.assem
                    /\ \E h \in turn.heads : keystack = Tail(h[1])

(***************************************************************************)
(* The functions of lib.rs on their own, as its unit tests call them: the  *)
(* argument is drawn from a set of texts and the function is applied once. *)
(* turn holds the function, its argument and, after the call, its result.  *)
(***************************************************************************)
\* the texts of at most n of the words, one space between two words
RECURSIVE Sentences(_, _)
Sentences(words, n) ==
    IF n = 0 THEN {<<>>}
    ELSE LET shorter == Sentences(words, n - 1)
         IN  shorter \cup words \cup {t \o <<" ">> \o w : t \in shorter \ {<<>>}, w \in words}

\* the texts of at most n of the pieces, one after the other
RECURSIVE Strings(_, _)
Strings(pieces, n) ==
    IF n = 0 THEN {<<>>}
    ELSE LET shorter == Strings(pieces, n - 1)
         IN  shorter \cup {t \o w : t \in shorter, w \in pieces}

\* an engine that is not in use, and the call under test
Called(fn, args) ==
    /\ script = "bare"
    /\ memory = <<>>
    /\ rule_usage = NoUsage
    /\ pc = "call"
    /\ phrase = None
    /\ keystack = <<>>
    /\ response = None
    /\ reply = None
    /\ \E arg \in args : turn = [fn |-> fn, in |-> arg, out |-> None]

\* the call returns
Returns(fn, value) ==
    /\ pc = "call"
    /\ turn.fn = fn
    /\ ~IsSome(turn.out)
    /\ turn' = [turn EXCEPT !.out = Some(value)]
    /\ UNCHANGED <<script, memory, rule_usage, pc, phrase, keystack, response, reply>>

Returned(fn) == pc = "call" /\ turn.fn = fn /\ IsSome(turn.out)

\* the words of a phrase given to populate_keystack
MaxWords == 3

\* keywords with ranks, as tests::keystack_rank_order builds them: two of one
\* rank and one below
RankKeywords ==
    << Keyword(<<"a">>, 0, <<>>), Keyword(<<"b">>, 1, <<>>), Keyword(<<"c">>, 1, <<>>) >>

\* the phrases: one of up to MaxWords words, alone or with phrases around it
KeystackPhrases ==
    {lead \o <<p>> \o rest :
        lead \in {<<>>, << <<>> >>, << <<"x">> >>},
        p \in Sentences({<<"a">>, <<"b">>, <<"c">>, <<"x">>}, MaxWords),
        rest \in {<<>>, << <<"a">> >>, << <<"x">>, <<"c", " ", "b">> >>}}

KeystackInit == Called("populate_keystack", KeystackPhrases)

PopulateKeystack ==
    Returns("populate_keystack", populate_keystack(turn.in, RankKeywords))

KeystackSpec == KeystackInit /\ [][PopulateKeystack]_vars

\* the phrase has a word that is the key of a keyword
HasKeyword(p, keywords) ==
    \E i \in 1..Len(get_words(p)) : \E k \in 1..Len(keywords) : keywords[k].key = get_words(p)[i]

\* C12: the active phrase is the first phrase with a word that is a keyword's
\* key; every keyword on the keystack is a word of the active phrase; there
\* is no active phrase exactly when the keystack is empty, which is when no
\* phrase has a keyword.
C12_ActivePhraseIsFirstWithKeyword ==
    Returned("populate_keystack") =>
        LET phrases == turn.in
            out == turn.out.some
            with == {i \in 1..Len(phrases) : HasKeyword(phrases[i], RankKeywords)}
        IN  /\ IsSome(out.active_phrase) <=> out.keystack # <<>>
            /\ IsSome(out.active_phrase) <=> with # {}
            /\ with # {} =>
                LET first == CHOOSE i \in with : \A j \in with : i <= j
                IN  /\ out.active_phrase = Some(phrases[first])
                    /\ \A n \in 1..Len(out.keystack) :
                        \E w \in 1..Len(get_words(phrases[first])) :
                            get_words(phrases[first])[w] = RankKeywords[out.keystack[n]].key

\* "x" has no keyword, "b x" is active, and the later "c b" adds nothing
C12_Witness ==
    /\ Returned("populate_keystack")
    /\ turn.in = << <<"x">>, <<"b", " ", "x">>, <<"x">>, <<"c", " ", "b">> >>
    /\ turn.out.some.active_phrase = Some(<<"b", " ", "x">>)
    /\ turn.out.some.keystack = <<2>>

\* the keywords of the words of the phrase, in the order of the words
RECURSIVE Occurrences(_, _)
Occurrences(words, keywords) ==
    IF words = <<>> THEN <<>>
    ELSE LET ks == {k \in 1..Len(keywords) : keywords[k].key = Head(words)}
         IN  (IF ks = {} THEN <<>> ELSE <<CHOOSE k \in ks : \A j \in ks : k <= j>>)
             \o Occurrences(Tail(words), keywords)

\* C13: the keystack has one entry for each word of the active phrase that is
\* a keyword's key, highest rank first, and the entries of one rank are in
\* the order of their words.
C13_KeystackIsStableByRank ==
    (Returned("populate_keystack") /\ IsSome(turn.out.some.active_phrase)) =>
        LET stack == turn.out.some.keystack
            occ == Occurrences(get_words(turn.out.some.active_phrase.some), RankKeywords)
            OfRank(seq, r) == SelectSeq(seq, LAMBDA k : RankKeywords[k].rank = r)
        IN  /\ Len(stack) = Len(occ)
            /\ \A i \in 1..(Len(stack) - 1) :
                    RankKeywords[stack[i]].rank >= RankKeywords[stack[i + 1]].rank
            /\ \A r \in {RankKeywords[k].rank : k \in 1..Len(RankKeywords)} :
                    OfRank(stack, r) = OfRank(occ, r)

\* "a c b": a goes last, c stays in front of b
C13_Witness ==
    /\ Returned("populate_keystack")
    /\ turn.in = << <<"a", " ", "c", " ", "b">> >>
    /\ turn.out.some.keystack = <<3, 2, 1>>

\* the pieces of a decomposition rule given to permutations
MaxPieces == 3

\* a synonym as in tests::perm_valid: f stands for b and m
PermSynonyms == << [word |-> <<"f">>, equivalents |-> << <<"b">>, <<"m">> >>] >>

\* rules with no, one or more '@', on the synonym f or on g, which is none
PermRules == Strings({AnyText, <<" ">>, <<"@", "f">>, <<"f">>, <<"x">>, <<"@", "g">>}, MaxPieces)

PermInit == Called("permutations", PermRules)

ExpandSynonyms == Returns("permutations", permutations(turn.in, PermSynonyms))

PermSpec == PermInit /\ [][ExpandSynonyms]_vars

\* the parts of a split with the text e between every two of them
RECURSIVE JoinWith(_, _)
JoinWith(parts, e) ==
    IF Len(parts) <= 1 THEN Flatten(parts)
    ELSE Head(parts) \o e \o JoinWith(Tail(parts), e)

Letters == {ALPHABET_LOWER[i] : i \in 1..26} \cup {ALPHABET_UPPER[i] : i \in 1..26}
Markers(rule) == Cardinality({i \in 1..Len(rule) : rule[i] = "@"})
Unmarked(rule) == SelectSeq(rule, LAMBDA c : c # "@")
\* the letters of the word of the rule that carries the '@'
Stem(rule) ==
    LET words == get_words(rule)
        w == CHOOSE w \in 1..Len(words) : \E i \in 1..Len(words[w]) : words[w][i] = "@"
    IN  SelectSeq(words[w], LAMBDA c : c \in Letters)

\* C14: a rule without '@' yields itself and nothing else; a rule with more
\* than one '@' yields nothing; a rule with one '@', on a word whose letters
\* are a synonym head with equivalents e1..ek, yields the rule without the
\* '@' and then, for e1..ek in order, the rule with the stem replaced by the
\* equivalent (and without the '@').
C14_SynonymExpansion ==
    Returned("permutations") =>
        LET rule == turn.in
            out == turn.out.some
            heads == {n \in 1..Len(PermSynonyms) : PermSynonyms[n].word = Stem(rule)}
        IN  /\ Markers(rule) = 0 => out = <<rule>>
            /\ Markers(rule) > 1 => out = <<>>
            /\ (Markers(rule) = 1 /\ heads # {}) =>
                LET es == PermSynonyms[CHOOSE n \in heads : TRUE].equivalents
                IN  /\ Len(out) = Len(es) + 1
                    /\ out[1] = Unmarked(rule)
                    /\ \A i \in 1..Len(es) :
                        out[i + 1] = Unmarked(JoinWith(SplitStr(rule, Stem(rule)), es[i]))

\* "(.*) @f" gives "(.*) f", "(.*) b", "(.*) m"
C14_Witness ==
    /\ Returned("permutations")
    /\ turn.in = AnyText \o <<" ", "@", "f">>
    /\ turn.out.some = << AnyText \o <<" ", "f">>, AnyText \o <<" ", "b">>, AnyText \o <<" ", "m">> >>

\* the pieces of a text given to reflect
MaxReflectPieces == 4

\* the only reflection of the script: i <-> you
ReflectPair == << [word |-> <<"i">>, inverse |-> <<"y", "o", "u">>, twoway |-> TRUE] >>

ReflectTexts == Strings({<<"i">>, <<"y", "o", "u">>, <<"x">>, <<" ">>}, MaxReflectPieces)

\* reflect is called, and then called again with what it returned
ReflectInit ==
    /\ script = "bare"
    /\ memory = <<>>
    /\ rule_usage = NoUsage
    /\ pc = "call"
    /\ phrase = None
    /\ keystack = <<>>
    /\ response = None
    /\ reply = None
    /\ \E t \in ReflectTexts : turn = [fn |-> "reflect", in |-> t, out |-> None, again |-> None]

Reflect ==
    /\ pc = "call"
    /\ turn.fn = "reflect"
    /\ ~IsSome(turn.out)
    /\ turn' = [turn EXCEPT !.out = Some(reflect(turn.in, ReflectPair))]
    /\ UNCHANGED <<script, memory, rule_usage, pc, phrase, keystack, response, reply>>

ReflectAgain ==
    /\ pc = "call"
    /\ turn.fn = "reflect"
    /\ IsSome(turn.out)
    /\ ~IsSome(turn.again)
    /\ turn' = [turn EXCEPT !.again = Some(reflect(turn.out.some, ReflectPair))]
    /\ UNCHANGED <<script, memory, rule_usage, pc, phrase, keystack, response, reply>>

ReflectSpec == ReflectInit /\ [][Reflect \/ ReflectAgain]_vars

\* the word the pair (a, b) turns w into
Swapped(w, a, b) == IF w = a THEN b ELSE IF w = b THEN a ELSE w

SingleSpaced(t) == t = JoinWith(get_words(t), <<" ">>)

MaxTemplatePieces == 3

\* a rule with two capture groups, as in tests::assemble_ok, and what it matches
AssemblePattern == AnyText \o <<" ">> \o AnyText
AssemblePhrases == {<<"i", " ", "x">>, <<"2", " ", "x">>, <<"x", " ", "y", "o", "u">>}

AssembleTemplates ==
    Strings({<<"$", "1">>, <<"$", "2">>, <<"$", "0">>, <<"$", "a">>,
             <<"1">>, <<"x">>, <<"a">>, <<" ">>, <<"?">>}, MaxTemplatePieces)

AssembleInit ==
    Called("assemble", {[rule |-> t, phrase |-> p] : t \in AssembleTemplates, p \in AssemblePhrases})

Assemble ==
    Returns("assemble",
            assemble(turn.in.rule, Captures(AssemblePattern, turn.in.phrase).some, ReflectPair))

AssembleSpec == AssembleInit /\ [][Assemble]_vars

IsAlphanumeric(c) == c \in Letters \cup {NUMERIC[i] : i \in 1..10}

\* the digits that follow position i of the text
RECURSIVE DigitsAt(_, _)
DigitsAt(t, i) ==
    IF i <= Len(t) /\ IsDigit(t[i]) THEN <<t[i]>> \o DigitsAt(t, i + 1) ELSE <<>>

\* the word is a back-reference $n with 1 <= n <= groups: its letters and
\* digits are the digits of n, and they follow its '$'
GoodReference(w, groups) ==
    LET ds == SelectSeq(w, IsAlphanumeric)
    IN  /\ ds # <<>>
        /\ \A i \in 1..Len(ds) : IsDigit(ds[i])
        /\ DecimalValue(ds) \in 1..groups
        /\ \E i \in 1..Len(w) : w[i] = "$" /\ DigitsAt(w, i + 1) = ds
        /\ Cardinality({i \in 1..Len(w) : w[i] = "$"}) = 1

\* the template with each $n replaced by the reflected text of group n
RECURSIVE Substituted(_, _, _)
Substituted(t, i, captures) ==
    IF i > Len(t) THEN <<>>
    ELSE IF t[i] = "$"
         THEN LET ds == DigitsAt(t, i + 1)
              IN  reflect(captures[DecimalValue(ds)], ReflectPair)
                  \o Substituted(t, i + 1 + Len(ds), captures)
    ELSE <<t[i]>> \o Substituted(t, i + 1, captures)

\* C16: when every back-reference of the template has its index in range, the
\* assembled string is the template with each $n replaced by the reflected
\* text of group n and nothing else changed: words without '$', digits among
\* them, punctuation and spacing are as in the template.
C16_AssembleOnlyReplacesBackReferences ==
    Returned("assemble") =>
        LET t == turn.in.rule
            captures == Captures(AssemblePattern, turn.in.phrase).some
            words == get_words(t)
        IN  (\A w \in 1..Len(words) :
                Contains(words[w], <<"$">>) => GoodReference(words[w], ReGroups(AssemblePattern))) =>
                turn.out.some = Some(Substituted(t, 1, captures))

\* C17: assemble returns no string for a template with a back-reference
\* whose index is not a positive integer: $a, and $0.
C17_AssembleRejectsNonPositiveIndex ==
    Returned("assemble") =>
        LET t == turn.in.rule
            bad(i) == /\ t[i] = "$"
                      /\ i < Len(t)
                      /\ \/ t[i + 1] \in Letters
                         \/ DigitsAt(t, i + 1) # <<>> /\ DecimalValue(DigitsAt(t, i + 1)) = 0
        IN  (\E i \in 1..Len(t) : bad(i)) => turn.out.some = None

\* the pieces of a text given to get_phrases
MaxPhrasePieces == 3

But == <<" ", "b", "u", "t", " ">>

\* a word that begins with "but", between blanks
Butter == <<" ", "b", "u", "t", "t", "e", "r", " ">>

PhraseTexts ==
    Strings({<<"x">>, <<" ">>, But, Butter, <<"b", "u", "t">>, <<".">>, <<",">>, <<"?">>},
            MaxPhrasePieces)

PhraseInit == Called("get_phrases", PhraseTexts)

GetPhrases == Returns("get_phrases", get_phrases(turn.in))

PhraseSpec == PhraseInit /\ [][GetPhrases]_vars

ButAt(t, i) == i + 4 <= Len(t) /\ SubSeq(t, i, i + 4) = But

\* the text cut in one pass from the left, at each " but " and at each of
\* '.', ',' and '?'; cur is the fragment that position i continues
RECURSIVE CutFrom(_, _, _)
CutFrom(t, i, cur) ==
    IF i > Len(t) THEN <<cur>>
    ELSE IF ButAt(t, i) THEN <<cur>> \o CutFrom(t, i + 5, <<>>)
    ELSE IF t[i] \in {".", ",", "?"} THEN <<cur>> \o CutFrom(t, i + 1, <<>>)
    ELSE CutFrom(t, i + 1, Append(cur, t[i]))

\* the cuts of that pass
RECURSIVE CutsFrom(_, _)
CutsFrom(t, i) ==
    IF i > Len(t) THEN 0
    ELSE IF ButAt(t, i) THEN 1 + CutsFrom(t, i + 5)
    ELSE IF t[i] \in {".", ",", "?"} THEN 1 + CutsFrom(t, i + 1)
    ELSE CutsFrom(t, i + 1)

\* the fragment from its first to its last character that is no blank
Trimmed(f) ==
    LET solid == {i \in 1..Len(f) : f[i] # " "}
    IN  IF solid = {} THEN <<>>
        ELSE SubSeq(f, CHOOSE i \in solid : \A j \in solid : i <= j,
                       CHOOSE i \in solid : \A j \in solid : i >= j)

\* C18: get_phrases returns, in their order, the fragments between the
\* occurrences of " but " and of '.', ',' and '?', each without the blanks
\* around it and with those inside it, the empty ones too: one fragment more
\* than there are separators, and an empty last one for a text ending in '?'.
C18_PhrasesAreTheTrimmedFragments ==
    Returned("get_phrases") =>
        LET t == turn.in
            out == turn.out.some
            cut == CutFrom(t, 1, <<>>)
        IN  /\ out = [i \in 1..Len(cut) |-> Trimmed(cut[i])]
            /\ Len(out) = 1 + CutsFrom(t, 1)
            /\ (t # <<>> /\ Last(t) = "?") => Last(out) = <<>>

\* "x but ?": the fragments "x", "" and ""
C18_Witness ==
    /\ Returned("get_phrases")
    /\ turn.in = <<"x">> \o But \o <<"?">>
    /\ turn.out.some = << <<"x">>, <<>>, <<>> >>

\* the pieces of a text given to transform
MaxTransformPieces == 4

\* transforms as in tests::transform_phrases: c <- {m, cs}, then r <- {cc}
NormTransforms ==
    << [word |-> <<"c">>, equivalents |-> << <<"m">>, <<"c", "s">> >>],
       [word |-> <<"r">>, equivalents |-> << <<"c", "c">> >>] >>

NormTexts == Strings({<<"m">>, <<"M">>, <<"c">>, <<"s">>, <<"x">>, <<" ">>}, MaxTransformPieces)

NormInit == Called("transform", NormTexts)

\* respond, line 93: transform(&input.to_lowercase(), &self.script.transforms)
Normalize == Returns("transform", transform(ToLowercase(turn.in), NormTransforms))

NormSpec == NormInit /\ [][Normalize]_vars

Lowered(t) ==
    [i \in 1..Len(t) |->
        IF \E n \in 1..26 : ALPHABET_UPPER[n] = t[i]
        THEN ALPHABET_LOWER[CHOOSE n \in 1..26 : ALPHABET_UPPER[n] = t[i]]
        ELSE t[i]]

\* the replacements in the order the claim gives them: transform by
\* transform, and equivalent by equivalent within a transform
ReplacementSteps(transforms) ==
    Flatten([n \in 1..Len(transforms) |->
                [e \in 1..Len(transforms[n].equivalents) |->
                    [from |-> transforms[n].equivalents[e], to |-> transforms[n].word]]])

\* every occurrence of step.from, from the left, replaced by step.to, one
\* step after the other
RECURSIVE Stepwise(_, _)
Stepwise(t, steps) ==
    IF steps = <<>> THEN t
    ELSE Stepwise(JoinWith(SplitStr(t, Head(steps).from), Head(steps).to), Tail(steps))

\* C19: the normalised text is the lowercased input after the replacements of
\* the transforms in script order and of their equivalents in list order,
\* each replacing every occurrence of the equivalent, inside words too, in
\* the text the step before left; "cs m" becomes "c c" under c <- {m, cs}.
C19_NormalizeReplacesInOrder ==
    Returned("transform") =>
        /\ turn.out.some = Stepwise(Lowered(turn.in), ReplacementSteps(NormTransforms))
        /\ turn.in = <<"c", "s", " ", "m">> => turn.out.some = <<"c", " ", "c">>

\* "xMs": lowercased, m becomes c, the cs this makes becomes c
C19_Witness ==
    /\ Returned("transform")
    /\ turn.in = <<"x", "M", "s">>
    /\ turn.out.some = <<"x", "c">>

Hello ==
    <<"H", "e", "l", "l", "o", ",", " ", "I", " ", "a", "m", " ", "E", "l", "i", "z", "a", ".">>
Goodbye == <<"G", "o", "o", "d", "b", "y", "e", ".">>

\* the entries of the list, or the default text when it has none
OneOf(list, default) ==
    IF list = <<>> THEN {default} ELSE {list[i] : i \in 1..Len(list)}

\* C20: greet returns an entry of script.greetings, or "Hello, I am Eliza."
\* when there is none, and farewell an entry of script.farewells, or
\* "Goodbye." when there is none; neither changes the memory queue,
\* rule_usage or the script.
C20_GreetAndFarewellAreStateless ==
    /\ [](ReplyBy("greet") => reply.text \in OneOf(Loaded(script).greetings, Hello))
    /\ [](ReplyBy("farewell") => reply.text \in OneOf(Loaded(script).farewells, Goodbye))
    /\ [][ (pc = "idle" /\ pc' = "idle") =>
            /\ reply'.by \in {"greet", "farewell"}
            /\ memory' = memory
            /\ rule_usage' = rule_usage
            /\ script' = script ]_vars

\* the default greeting was returned while the engine held a memorised
\* response and usage counts
C20_Witness ==
    /\ pc = "idle"
    /\ ReplyBy("greet")
    /\ reply.text = Hello
    /\ Loaded(script).greetings = <<>>
    /\ memory # <<>>
    /\ rule_usage # NoUsage

(***************************************************************************)
(* Usage keys of different rules (get_reassembly under SelectSpec)         *)
(***************************************************************************)
\* rules of the script other than the one selected from, each with a
\* decomposition source that differs from SelectId
OtherRules ==
    { [source |-> <<"j">>, templates |-> << <<"A">> >>],
      [source |-> <<>>,    templates |-> << <<"i", "A">> >>] }

\* the count of a template, an unused template counting as 0
UsageOf(usage, source, template) ==
    IF (source \o template) \in DOMAIN usage THEN usage[source \o template] ELSE 0

\* C22: a selection under one decomposition rule leaves unchanged the count
\* of every template of every rule with a different decomposition source,
\* also when the template texts are the same or when source and template
\* concatenate to the same string.
C22_OtherRulesKeepTheirCounts ==
    [][ \A other \in OtherRules :
        \A n \in 1..Len(other.templates) :
            (other.source # turn.id)
                => UsageOf(rule_usage', other.source, other.templates[n])
                    = UsageOf(rule_usage, other.source, other.templates[n]) ]_vars

(***************************************************************************)
(* The order of the search (get_response under Spec)                       *)
(***************************************************************************)
\* the keystack the respond call of this turn began with
TurnKeystack ==
    populate_keystack(
        get_phrases(transform(ToLowercase(turn.input), Loaded(script).transforms)),
        Loaded(script).keywords).keystack

\* every pass so far took one keyword off the keystack and pushed none
NoGotoSoFar == Len(keystack) + Cardinality(turn.heads) = Len(TurnKeystack)

\* the visit selected a GOTO template
IsGotoVisit(v) == IsSome(v.assem) /\ IsSome(is_goto(v.assem.some))

\* (rule, permutation) a comes before b in declaration order
Before(a, b) == a[1] < b[1] \/ (a[1] = b[1] /\ a[2] < b[2])

\* C23: in a turn without GOTO the response of the search is assembled from
\* the first (keyword, rule) pair, in keystack order and then in rule
\* declaration order, whose decomposition matches the active phrase, whose
\* memorise flag is false and whose selected template assembles; no template
\* of a later rule or keyword is selected (their usage counts do not change).
C23_FirstMatchingRuleAnswers ==
    [][ /\ (IsPop /\ pc' # "panicked" /\ NoGotoSoFar
                /\ \A i \in 1..Len(turn'.visits) : ~IsGotoVisit(turn'.visits[i])) =>
            LET k == Head(keystack)
                scr == Loaded(script)
                rules == scr.keywords[k].rules
                vs == turn'.visits
                Regexes(ri) == permutations(rules[ri].decomposition_rule, scr.synonyms)
                Cap(ri, pi) == Captures(Regexes(ri)[pi], phrase.some)
                Assembled(v) == assemble(v.assem.some, Cap(v.rule, v.perm).some, scr.reflections)
                Answers(v) ==
                    /\ IsSome(v.assem)
                    /\ ~rules[v.rule].memorise
                    /\ IsSome(Assembled(v))
                Key(v) == rules[v.rule].decomposition_rule \o v.assem.some
            IN  /\ keystack = SubSeq(TurnKeystack, Cardinality(turn.heads) + 1, Len(TurnKeystack))
                /\ keystack' = Tail(keystack)
                /\ \A i \in 1..Len(vs) :
                    /\ vs[i].keyword = k
                    /\ IsSome(Cap(vs[i].rule, vs[i].perm))
                /\ \A i \in 1..(Len(vs) - 1) :
                    /\ ~Answers(vs[i])
                    /\ Before(<<vs[i].rule, vs[i].perm>>, <<vs[i + 1].rule, vs[i + 1].perm>>)
                /\ IF vs # <<>> /\ Answers(Last(vs))
                   THEN response' = Assembled(Last(vs))
                   ELSE response' = None
                /\ \A ri \in 1..Len(rules) : \A pi \in 1..Len(Regexes(ri)) :
                    IsSome(Cap(ri, pi)) =>
                        \/ \E i \in 1..Len(vs) : vs[i].rule = ri /\ vs[i].perm = pi
                        \/ /\ vs # <<>>
                           /\ Answers(Last(vs))
                           /\ Before(<<Last(vs).rule, Last(vs).perm>>, <<ri, pi>>)
                /\ \A key \in DOMAIN rule_usage' :
                    (key \notin DOMAIN rule_usage \/ rule_usage'[key] # rule_usage[key]) =>
                        \E i \in 1..Len(vs) : IsSome(vs[i].assem) /\ key = Key(vs[i])
        /\ (pc = "search" /\ IsSome(response)) => rule_usage' = rule_usage
      ]_vars

\* "My i": the first rule of "my" matched and was memorised, the second one
\* answered
C23_Witness ==
    /\ pc = "search"
    /\ script = "memory"
    /\ IsSome(response)
    /\ Len(turn.visits) = 2
    /\ turn.visits[1].rule = 1
    /\ turn.visits[1].result = "memorised"
    /\ turn.visits[2].rule = 2
    /\ response = Some(<<"A">>)

\* C24: a visit of a rule selects at most one reassembly template: when the
\* template selected for the first matching permutation does not assemble, or
\* its result is memorised, the search goes to the next rule; no second
\* template of the rule is selected in the same pass, however many synonym
\* permutations of the rule match (one usage increment and one memory push
\* per rule and pass at most).
C24_OneTemplatePerRuleVisit ==
    pc \in {"search", "idle"} =>
        \A i \in 1..Len(turn.visits) : \A j \in 1..Len(turn.visits) :
            (/\ i < j
             /\ turn.visits[i].result \in {"memorised", "not assembled"}
             /\ turn.visits[i].keyword = turn.visits[j].keyword)
                => turn.visits[i].rule # turn.visits[j].rule

(***************************************************************************)
(* reflect under several reflections, one-way ones among them              *)
(***************************************************************************)
\* the words of a text given to reflect
MaxReflectWords == 3

\* i <-> you; you -> x is behind it; a -> b and b -> c are one-way
ReflectList ==
    << [word |-> <<"i">>, inverse |-> <<"y", "o", "u">>, twoway |-> TRUE],
       [word |-> <<"y", "o", "u">>, inverse |-> <<"x">>, twoway |-> FALSE],
       [word |-> <<"a">>, inverse |-> <<"b">>, twoway |-> FALSE],
       [word |-> <<"b">>, inverse |-> <<"c">>, twoway |-> FALSE] >>

\* texts of these words, with or without a space in front and behind
ReflectListTexts ==
    {lead \o t \o trail :
        lead \in {<<>>, <<" ">>},
        t \in Sentences({<<"i">>, <<"y", "o", "u">>, <<"a">>, <<"b">>, <<"c">>}, MaxReflectWords),
        trail \in {<<>>, <<" ">>}}

ReflectListInit == Called("reflect list", ReflectListTexts)

ReflectUnderList == Returns("reflect list", reflect(turn.in, ReflectList))

ReflectListSpec == ReflectListInit /\ [][ReflectUnderList]_vars

\* what the entries turn the word w into
Emitted(w, entries) ==
    LET Decides(n) ==
            \/ entries[n].word = w
            \/ entries[n].twoway /\ entries[n].inverse = w
        deciding == {n \in 1..Len(entries) : Decides(n)}
    IN  IF deciding = {} THEN w
        ELSE LET first == CHOOSE n \in deciding : \A m \in deciding : n <= m
             IN  IF entries[first].word = w THEN entries[first].inverse
                 ELSE entries[first].word

\* C25: reflect decides each word by the first entry in script order with
\* word = w, or with twoway and inverse = w; it emits the inverse in the
\* first case and the word in the second; a word that is only the inverse of
\* one-way entries is emitted as it is; the output is the emitted words with
\* single spaces between them and no whitespace in front or behind.
C25_ReflectTakesTheFirstEntry ==
    Returned("reflect list") =>
        LET words == get_words(turn.in)
            out == turn.out.some
        IN  /\ out = JoinWith([i \in 1..Len(words) |-> Emitted(words[i], ReflectList)], <<" ">>)
            /\ out # <<>> => (out[1] # " " /\ out[Len(out)] # " ")
            /\ words = << <<"c">> >> => out = <<"c">>

\* " you b c": the two-way entry decides "you" before the entry you -> x,
\* b becomes c by its own entry and c, only the inverse of b -> c, stays
C25_Witness ==
    /\ Returned("reflect list")
    /\ turn.in = <<" ", "y", "o", "u", " ", "b", " ", "c">>
    /\ turn.out.some = <<"i", " ", "c", " ", "c">>

\* the reflected text of capture group n of the phrase given to assemble
ReflectedGroup(n) ==
    reflect(Captures(AssemblePattern, turn.in.phrase).some[n], ReflectPair)

OnlyButter(t) ==
    /\ Contains(t, <<" ", "b", "u", "t", "t", "e", "r">>)
    /\ \A i \in 1..Len(t) : ~ButAt(t, i) /\ t[i] \notin {".", ",", "?"}

\* C27 as the claim states it: the " but " split also fires inside a word: a
\* text with the word "butter" is split at that occurrence into two
\* fragments.
C27_ButSplitsInsideAWord ==
    (Returned("get_phrases") /\ OnlyButter(turn.in)) => Len(turn.out.some) >= 2

\* C27: the " but " split fires only where "but" stands between two blanks:
\* a text with the word "butter" is not split at that occurrence; with no
\* " but " and none of '.', ',' and '?' in it, it is one fragment, the text
\* without the blanks around it.
C27_ButSplitsBetweenBlanksOnly ==
    (Returned("get_phrases") /\ OnlyButter(turn.in)) =>
        turn.out.some = << Trimmed(turn.in) >>

\* "x butter x" is one fragment
C27_Witness ==
    /\ Returned("get_phrases")
    /\ turn.in = <<"x">> \o Butter \o <<"x">>
    /\ turn.out.some = << <<"x", " ", "b", "u", "t", "t", "e", "r", " ", "x">> >>

(***************************************************************************)
(* GOTO circles through rules that hold other templates too                *)
(***************************************************************************)
\* every rule with a GOTO template also has a template that is no GOTO
EveryGotoRuleHasAnother(scr) ==
    \A k \in 1..Len(scr.keywords) : \A r \in 1..Len(scr.keywords[k].rules) :
        LET templates == scr.keywords[k].rules[r].reassembly_rules
        IN  (\E t \in 1..Len(templates) : IsSome(is_goto(templates[t])))
                => \E t \in 1..Len(templates) : ~IsSome(is_goto(templates[t]))

\* C28: when every rule with a GOTO template also holds a template that is
\* no GOTO, the loop 'search of every respond call comes to an end, also when
\* the GOTO templates redirect in a circle: each GOTO selection raises the
\* count of its template until another template is the least used, so no
\* pass starts from the keystack, usage map and memory of an earlier pass.
C28_SearchTerminatesWithOtherTemplates ==
    (EveryGotoRuleHasAnother(Loaded(script)) /\ AtPop)
        => <<keystack, rule_usage, memory>> \notin turn.heads

(***************************************************************************)
(* The balance of the usage counts, and memory against fallback            *)
(***************************************************************************)
\* the usage keys of rule r of keyword k
KeysOfRule(scr, k, r) ==
    LET rule == scr.keywords[k].rules[r]
    IN  {rule.decomposition_rule \o rule.reassembly_rules[t] :
            t \in 1..Len(rule.reassembly_rules)}

\* no other rule of the script has a usage key of rule r of keyword k
SharesNoKey(scr, k, r) ==
    \A k2 \in 1..Len(scr.keywords) : \A r2 \in 1..Len(scr.keywords[k2].rules) :
        <<k2, r2>> # <<k, r>> => KeysOfRule(scr, k, r) \cap KeysOfRule(scr, k2, r2) = {}

CountOf(key) == IF key \in DOMAIN rule_usage THEN rule_usage[key] ELSE 0

\* C29: after any sequence of respond calls on a fresh engine, the usage
\* counts of the distinct templates of one rule, an unused template counting
\* as 0, differ by at most 1, provided no other rule shares a usage key with
\* the rule.
C29_UsageIsBalanced ==
    pc = "idle" =>
        \A k \in 1..Len(Loaded(script).keywords) :
        \A r \in 1..Len(Loaded(script).keywords[k].rules) :
            SharesNoKey(Loaded(script), k, r) =>
                \A a, b \in KeysOfRule(Loaded(script), k, r) : CountOf(a) - CountOf(b) <= 1

\* the templates "A" and "B" of the second rule of "my": used twice and once
C29_Witness ==
    /\ pc = "idle"
    /\ script = "memory"
    /\ SharesNoKey(Loaded(script), 1, 2)
    /\ CountOf(AnyText \o <<"A">>) = 2
    /\ CountOf(AnyText \o <<"B">>) = 1

\* C30: a fallback is used only when nothing is memorised: when respond has
\* returned a fallback entry or "Go on." through the fallback branch, the
\* memory queue is empty at the end of the turn; and a respond call removes
\* at most one entry from memory: all but the oldest entry the call began
\* with are still in the queue, in their order.
C30_FallbackOnlyWithEmptyMemory ==
    /\ (pc = "idle" /\ ReplyBy("fallback")) => memory = <<>>
    /\ turn.memory # <<>> =>
        /\ Len(memory) >= Len(turn.memory) - 1
        /\ \/ SubSeq(memory, 1, Len(turn.memory) - 1) = Tail(turn.memory)
           \/ /\ Len(memory) >= Len(turn.memory)
              /\ SubSeq(memory, 1, Len(turn.memory)) = turn.memory

\* "q" after the memorised answers were handed out: the fallback, and the
\* queue is empty
C30_Witness ==
    /\ pc = "idle"
    /\ ReplyBy("fallback")
    /\ reply.text \in {Loaded(script).fallbacks[i] : i \in 1..Len(Loaded(script).fallbacks)}
    /\ turn.input = <<"q">>
    /\ turn.memory = <<>>
    /\ memory = <<>>
    /\ rule_usage # NoUsage

=============================================================================
